---- MODULE Spec2Model ----
(***************************************************************************)
(* Dielemma: a proof-of-life escrow on Solana.  The repository holds two   *)
(* variants of the on-chain program:                                       *)
(*   sol-program      (src/sol-program/src/lib.rs), the hardened variant   *)
(*   dielemma-program (src/dielemma-program/src/lib.rs), the earlier one   *)
(* Both are modelled.  One step of the model is one instruction, executed  *)
(* by the host as an all-or-nothing transaction: an instruction that       *)
(* returns Err leaves every account as it was.                             *)
(***************************************************************************)
EXTENDS Integers, Sequences, FiniteSets, TLC

(* ---------------------------------------------------------------- bounds *)
MaxTicks == 2
MaxCount == 2

(* ------------------------------------------------------ program constants *)
MAX_DEPOSIT_SEED_LENGTH == 32
MIN_TIMEOUT_SECONDS == 60
MAX_TIMEOUT_SECONDS == 315360000
MIN_VALID_TIMESTAMP == 1598000000
DEPOSIT_ACCOUNT_SIZE_sol == 32 + 32 + 32 + 8 + 8 + 8 + 1 + 1 + 4 + MAX_DEPOSIT_SEED_LENGTH + 1 + 64
DEPOSIT_ACCOUNT_SIZE_dlm == 32 + 32 + 32 + 8 + 8 + 8 + 1 + 1 + 4 + MAX_DEPOSIT_SEED_LENGTH
WSOL_MINT == "WSOL"

(* rent.minimum_balance(..) of the record and of the vault, in model units *)
RentDeposit == 2
RentVault == 1

(* ------------------------------------------------------------- universes *)
Variants == {"sol", "dlm"}
Users == {"alice", "bob", "mallory"}
Owners == {"alice"}
Seeds == {"s1", "s2"}
Receivers == {"bob"}
Amounts == {5}
Timeouts == {60}
Tokens == {"zero", "T1", "T2"}
VaultHandles == {"vault", "decoy", "wallet"}

SeedLen(seed) == IF seed = "s1" \/ seed = "s2" THEN 2 ELSE 33

TickStep == MIN_TIMEOUT_SECONDS \div 2
Start == MIN_VALID_TIMESTAMP + MIN_TIMEOUT_SECONDS

(* ------------------------------------------------------------- addresses *)
(* Pubkey::find_program_address(&[DEPOSIT_SEED_PREFIX, owner, seed], id):  *)
(* a collision-resistant hash of its inputs, modelled as the tuple itself. *)
Keys == Owners \X Seeds
find_program_address(owner, seed) == <<owner, seed>>
bump_of(key) == 255

(* ------------------------------------------------------------ ProgramError *)
Ok == [code |-> "Ok", site |-> "ok"]
Err(code, site) == [code |-> code, site |-> site]

(* -------------------------------------------------------- account storage *)
None == <<>>
Some(x) == <<x>>

ZeroBody ==
    [depositor |-> "", receiver |-> "", token_mint |-> "", amount |-> 0,
     last_proof_timestamp |-> 0, timeout_seconds |-> 0, bump |-> 0,
     is_closed |-> FALSE, deposit_seed_len |-> 0, deposit_seed |-> ""]

(* An account that does not exist: no lamports, no data. *)
NoAccount == [lamports |-> 0, size |-> 0, body |-> ZeroBody, tag |-> 0, sig |-> "zero"]
NoVault == [exists |-> FALSE, amount |-> 0]

(* Borsh: DepositAccount::try_from_slice(&data).  The fields are read in   *)
(* order; Option<[u8; 64]> reads one tag byte and, for tag 1, 64 more.     *)
(* try_from_slice fails when input is missing and also when bytes are left *)
(* over ("Not all bytes read").                                            *)
consumed_sol(acct) ==
    IF acct.tag = 1 THEN DEPOSIT_ACCOUNT_SIZE_sol ELSE DEPOSIT_ACCOUNT_SIZE_sol - 64

try_from_slice_sol(acct) ==
    [ok |-> /\ acct.tag \in {0, 1}
            /\ acct.size >= consumed_sol(acct)
            /\ acct.size = consumed_sol(acct),
     body |-> acct.body,
     last_burn_signature |-> IF acct.tag = 1 THEN Some(acct.sig) ELSE None]

try_from_slice_dlm(acct) ==
    [ok |-> /\ acct.size >= DEPOSIT_ACCOUNT_SIZE_dlm
            /\ acct.size = DEPOSIT_ACCOUNT_SIZE_dlm,
     body |-> acct.body,
     last_burn_signature |-> None]

(* Borsh: state.serialize(&mut &mut data[..]) writes the encoding at the   *)
(* start of the buffer and leaves the bytes after it as they were.         *)
serialize_sol(acct, body, last_burn_signature) ==
    [acct EXCEPT !.body = body,
                 !.tag = IF last_burn_signature = None THEN 0 ELSE 1,
                 !.sig = IF last_burn_signature = None THEN @ ELSE last_burn_signature[1]]

serialize_dlm(acct, body) == [acct EXCEPT !.body = body]

(* ------------------------------------------------------------------ state *)
VARIABLES
    variant,    \* which program of the repository is deployed
    now,        \* Clock::get()?.unix_timestamp
    deposits,   \* the deposit account (record) at each derived address
    vaults,     \* the deposit token account derived from each record address
    wallet,     \* token balance of each user's own token account
    lamports,   \* lamports of each user's system account
    opened,     \* history: successful Deposits per record address
    settled,    \* history: successful Withdraws and Claims per record address
    last        \* the last instruction and what it returned

vars == <<variant, now, deposits, vaults, wallet, lamports, opened, settled, last>>

(* The accounts one instruction can touch. *)
Ledger == [deposits |-> deposits, vaults |-> vaults, wallet |-> wallet, lamports |-> lamports]

(* ---------------------------------------------------- external programs *)
(* system_instruction::create_account: fails when the new account is in    *)
(* use, when the payer has not signed or cannot pay.                       *)
create_account_ok(L, payer, payer_signed, in_use, rent) ==
    /\ payer_signed
    /\ ~in_use
    /\ L.lamports[payer] >= rent

(* The token account a vault handle names, for the record at address a:    *)
(* its balance and the authority that may move it.                         *)
vault_account(L, a, vh, caller) ==
    CASE vh = "vault" -> [exists |-> L.vaults[a].exists, amount |-> L.vaults[a].amount, authority |-> a]
      [] vh = "decoy" -> [exists |-> TRUE, amount |-> 0, authority |-> a]
      [] OTHER -> [exists |-> TRUE, amount |-> L.wallet[caller], authority |-> <<caller>>]

(* spl_token transfer of the whole balance of the vault handle to the      *)
(* token account of user dest.                                             *)
transfer_out(L, a, vh, dest, amount) ==
    CASE vh = "vault" ->
            [L EXCEPT !.vaults[a].amount = @ - amount, !.wallet[dest] = @ + amount]
      [] OTHER -> L

Exec(res, L) == [res |-> res, L |-> L]

(* ================================================== sol-program handlers *)
(* Each handler returns what it returned and the accounts as it left them, *)
(* a failed handler's partial writes included.                             *)

(* process_instruction, discriminant 0..4: the seed length prefix *)
seed_ok_sol(seed) == SeedLen(seed) <= MAX_DEPOSIT_SEED_LENGTH

new_body(depositor, receiver, amount, t, timeout_seconds, a, seed) ==
    [depositor |-> depositor, receiver |-> receiver, token_mint |-> WSOL_MINT,
     amount |-> amount, last_proof_timestamp |-> t, timeout_seconds |-> timeout_seconds,
     bump |-> bump_of(a), is_closed |-> FALSE,
     deposit_seed_len |-> SeedLen(seed), deposit_seed |-> seed]

(* process_deposit from the creation of the deposit account on *)
create_and_fund_sol(L, t, depositor, is_signer, a, seed, src, vh, receiver, amount, timeout_seconds) ==
    LET L1 == [L EXCEPT !.lamports[depositor] = @ - RentDeposit,
                        !.deposits[a] = [NoAccount EXCEPT !.lamports = RentDeposit,
                                                          !.size = DEPOSIT_ACCOUNT_SIZE_sol]]
        L2 == [L1 EXCEPT !.lamports[depositor] = @ - RentVault,
                         !.vaults[a] = [exists |-> TRUE, amount |-> 0]]
        L3 == [L2 EXCEPT !.wallet[src] = @ - amount, !.vaults[a].amount = @ + amount]
        L4 == [L3 EXCEPT !.deposits[a] =
                  serialize_sol(@, new_body(depositor, receiver, amount, t, timeout_seconds, a, seed), None)]
    IN  IF ~create_account_ok(L, depositor, is_signer, L.deposits[a].size > 0, RentDeposit)
            THEN Exec(Err("Custom", "cpi_create_deposit"), L)
        ELSE IF vh # "vault" THEN Exec(Err("InvalidAccountData", "vault_pda"), L1)
        ELSE IF ~create_account_ok(L1, depositor, is_signer, L1.vaults[a].exists, RentVault)
            THEN Exec(Err("Custom", "cpi_create_vault"), L1)
        ELSE IF L2.wallet[src] < amount THEN Exec(Err("Custom", "cpi_transfer"), L2)
        ELSE Exec(Ok, L4)

(* process_deposit without the check that the deposit account exists *)
process_deposit_sol_no_exists_check(L, t, depositor, is_signer, a, seed, src, vh, receiver, amount, timeout_seconds) ==
    IF ~seed_ok_sol(seed) THEN Exec(Err("InvalidInstructionData", "seed_len"), L)
    ELSE IF ~is_signer THEN Exec(Err("MissingRequiredSignature", "signer"), L)
    ELSE IF amount = 0 THEN Exec(Err("InvalidInstructionData", "amount"), L)
    ELSE IF timeout_seconds < MIN_TIMEOUT_SECONDS \/ timeout_seconds > MAX_TIMEOUT_SECONDS
        THEN Exec(Err("InvalidInstructionData", "timeout"), L)
    ELSE IF src # depositor THEN Exec(Err("InvalidAccountData", "funding_owner"), L)
    ELSE IF a # find_program_address(depositor, seed) THEN Exec(Err("InvalidAccountData", "pda"), L)
    ELSE create_and_fund_sol(L, t, depositor, is_signer, a, seed, src, vh, receiver, amount, timeout_seconds)

process_deposit_sol(L, t, depositor, is_signer, a, seed, src, vh, receiver, amount, timeout_seconds) ==
    IF ~seed_ok_sol(seed) THEN Exec(Err("InvalidInstructionData", "seed_len"), L)
    ELSE IF ~is_signer THEN Exec(Err("MissingRequiredSignature", "signer"), L)
    ELSE IF amount = 0 THEN Exec(Err("InvalidInstructionData", "amount"), L)
    ELSE IF timeout_seconds < MIN_TIMEOUT_SECONDS \/ timeout_seconds > MAX_TIMEOUT_SECONDS
        THEN Exec(Err("InvalidInstructionData", "timeout"), L)
    ELSE IF src # depositor THEN Exec(Err("InvalidAccountData", "funding_owner"), L)
    ELSE IF a # find_program_address(depositor, seed) THEN Exec(Err("InvalidAccountData", "pda"), L)
    ELSE IF L.deposits[a].lamports > 0 THEN Exec(Err("AccountAlreadyInitialized", "exists"), L)
    ELSE create_and_fund_sol(L, t, depositor, is_signer, a, seed, src, vh, receiver, amount, timeout_seconds)

process_proof_of_life_sol(L, t, depositor, is_signer, a, seed, burn_signature) ==
    LET d == try_from_slice_sol(L.deposits[a])
        L1 == [L EXCEPT !.deposits[a] =
                  serialize_sol(@, [d.body EXCEPT !.last_proof_timestamp = t], Some(burn_signature))]
    IN  IF ~seed_ok_sol(seed) THEN Exec(Err("InvalidInstructionData", "seed_len"), L)
        ELSE IF ~is_signer THEN Exec(Err("MissingRequiredSignature", "signer"), L)
        ELSE IF a # find_program_address(depositor, seed) THEN Exec(Err("InvalidAccountData", "pda"), L)
        ELSE IF ~d.ok THEN Exec(Err("BorshIoError", "decode"), L)
        ELSE IF d.body.depositor # depositor THEN Exec(Err("MissingRequiredSignature", "depositor"), L)
        ELSE IF d.body.is_closed THEN Exec(Err("InvalidAccountData", "closed"), L)
        ELSE IF d.last_burn_signature # None /\ burn_signature = d.last_burn_signature[1]
            THEN Exec(Err("InvalidInstructionData", "replay"), L)
        ELSE Exec(Ok, L1)

process_withdraw_sol(L, t, depositor, is_signer, a, seed, dest, vh) ==
    LET d == try_from_slice_sol(L.deposits[a])
        L1 == [L EXCEPT !.deposits[a] =
                  serialize_sol(@, [d.body EXCEPT !.is_closed = TRUE], d.last_burn_signature)]
        src == vault_account(L1, a, vh, depositor)
    IN  IF ~seed_ok_sol(seed) THEN Exec(Err("InvalidInstructionData", "seed_len"), L)
        ELSE IF dest # depositor THEN Exec(Err("InvalidAccountData", "token_owner"), L)
        ELSE IF a # find_program_address(depositor, seed) THEN Exec(Err("InvalidAccountData", "pda"), L)
        ELSE IF ~d.ok THEN Exec(Err("BorshIoError", "decode"), L)
        ELSE IF d.body.depositor # depositor THEN Exec(Err("MissingRequiredSignature", "depositor"), L)
        ELSE IF d.body.is_closed THEN Exec(Err("InvalidAccountData", "closed"), L)
        ELSE IF ~src.exists THEN Exec(Err("InvalidAccountData", "vault_unpack"), L1)
        ELSE IF src.authority # a THEN Exec(Err("Custom", "cpi_transfer"), L1)
        ELSE Exec(Ok, transfer_out(L1, a, vh, dest, src.amount))

process_claim_sol(L, t, receiver, is_signer, a, seed, dest, vh) ==
    LET d == try_from_slice_sol(L.deposits[a])
        L1 == [L EXCEPT !.deposits[a] =
                  serialize_sol(@, [d.body EXCEPT !.is_closed = TRUE], d.last_burn_signature)]
        src == vault_account(L1, a, vh, receiver)
        elapsed == t - d.body.last_proof_timestamp
    IN  IF ~seed_ok_sol(seed) THEN Exec(Err("InvalidInstructionData", "seed_len"), L)
        ELSE IF dest # receiver THEN Exec(Err("InvalidAccountData", "token_owner"), L)
        ELSE IF ~d.ok THEN Exec(Err("BorshIoError", "decode"), L)
        ELSE IF a # find_program_address(d.body.depositor, seed) THEN Exec(Err("InvalidAccountData", "pda"), L)
        ELSE IF d.body.receiver # receiver THEN Exec(Err("MissingRequiredSignature", "receiver"), L)
        ELSE IF ~is_signer THEN Exec(Err("MissingRequiredSignature", "signer"), L)
        ELSE IF d.body.is_closed THEN Exec(Err("InvalidAccountData", "closed"), L)
        ELSE IF d.body.last_proof_timestamp > t THEN Exec(Err("InvalidAccountData", "future_ts"), L)
        ELSE IF d.body.last_proof_timestamp < MIN_VALID_TIMESTAMP THEN Exec(Err("InvalidAccountData", "old_ts"), L)
        ELSE IF elapsed < d.body.timeout_seconds THEN Exec(Err("InvalidAccountData", "not_expired"), L)
        ELSE IF ~src.exists THEN Exec(Err("InvalidAccountData", "vault_unpack"), L1)
        ELSE IF src.authority # a THEN Exec(Err("Custom", "cpi_transfer"), L1)
        ELSE Exec(Ok, transfer_out(L1, a, vh, dest, src.amount))

(* refund recipient: a user's account, or "self", the deposit account itself *)
credit_refund(L, a, rcpt, close_lamports) ==
    IF rcpt = "self" THEN [L EXCEPT !.deposits[a].lamports = @ + close_lamports]
    ELSE [L EXCEPT !.lamports[rcpt] = @ + close_lamports]

process_close_account_sol(L, t, authority, is_signer, a, seed, rcpt) ==
    LET d == try_from_slice_sol(L.deposits[a])
        close_lamports == L.deposits[a].lamports
        L1 == [L EXCEPT !.deposits[a].lamports = 0]
    IN  IF ~seed_ok_sol(seed) THEN Exec(Err("InvalidInstructionData", "seed_len"), L)
        ELSE IF ~d.ok THEN Exec(Err("BorshIoError", "decode"), L)
        ELSE IF a # find_program_address(d.body.depositor, seed) THEN Exec(Err("InvalidAccountData", "pda"), L)
        ELSE IF d.body.depositor # authority /\ d.body.receiver # authority
            THEN Exec(Err("MissingRequiredSignature", "authority"), L)
        ELSE IF ~is_signer THEN Exec(Err("MissingRequiredSignature", "signer"), L)
        ELSE IF ~d.body.is_closed THEN Exec(Err("InvalidAccountData", "not_closed"), L)
        ELSE Exec(Ok, credit_refund(L1, a, rcpt, close_lamports))

(* ============================================= dielemma-program handlers *)
(* Pubkey::find_program_address panics when a seed is longer than 32 bytes *)
(* (no bump gives an address); process_instruction does not bound the seed *)
(* before the handlers derive the address.                                 *)
seed_fits_pda(seed) == SeedLen(seed) <= MAX_DEPOSIT_SEED_LENGTH

(* process_deposit that takes over a vault account that is already there *)
process_deposit_dlm_reuses_vault(L, t, depositor, is_signer, a, seed, src, vh, receiver, amount, timeout_seconds) ==
    LET L1 == [L EXCEPT !.lamports[depositor] = @ - RentDeposit,
                        !.deposits[a] = [NoAccount EXCEPT !.lamports = RentDeposit,
                                                          !.size = DEPOSIT_ACCOUNT_SIZE_dlm]]
        L2 == [L1 EXCEPT !.lamports[depositor] = @ - RentVault,
                         !.vaults[a] = [exists |-> TRUE, amount |-> 0]]
        L3 == [L2 EXCEPT !.wallet[src] = @ - amount, !.vaults[a].amount = @ + amount]
        L4 == [L3 EXCEPT !.deposits[a] =
                  serialize_dlm(@, new_body(depositor, receiver, amount, t, timeout_seconds, a, seed))]
    IN  IF ~seed_fits_pda(seed) THEN Exec(Err("ProgramFailedToComplete", "seed_panic"), L)
        ELSE IF a # find_program_address(depositor, seed) THEN Exec(Err("InvalidAccountData", "pda"), L)
        ELSE IF L.deposits[a].lamports > 0 THEN Exec(Err("AccountAlreadyInitialized", "exists"), L)
        ELSE IF ~create_account_ok(L, depositor, is_signer, L.deposits[a].size > 0, RentDeposit)
            THEN Exec(Err("Custom", "cpi_create_deposit"), L)
        ELSE IF vh # "vault" THEN Exec(Err("InvalidAccountData", "vault_pda"), L1)
        ELSE IF ~create_account_ok(L1, depositor, is_signer, FALSE, RentVault)
            THEN Exec(Err("Custom", "cpi_create_vault"), L1)
        ELSE IF src # depositor \/ L2.wallet[src] < amount THEN Exec(Err("Custom", "cpi_transfer"), L2)
        ELSE Exec(Ok, L4)

(* process_deposit that creates the record at whatever address is presented *)
process_deposit_dlm_no_pda_check(L, t, depositor, is_signer, a, seed, src, vh, receiver, amount, timeout_seconds) ==
    LET L1 == [L EXCEPT !.lamports[depositor] = @ - RentDeposit,
                        !.deposits[a] = [NoAccount EXCEPT !.lamports = RentDeposit,
                                                          !.size = DEPOSIT_ACCOUNT_SIZE_dlm]]
        L2 == [L1 EXCEPT !.lamports[depositor] = @ - RentVault,
                         !.vaults[a] = [exists |-> TRUE, amount |-> 0]]
        L3 == [L2 EXCEPT !.wallet[src] = @ - amount, !.vaults[a].amount = @ + amount]
        L4 == [L3 EXCEPT !.deposits[a] =
                  serialize_dlm(@, new_body(depositor, receiver, amount, t, timeout_seconds, a, seed))]
    IN  IF ~seed_fits_pda(seed) THEN Exec(Err("ProgramFailedToComplete", "seed_panic"), L)
        ELSE IF L.deposits[a].lamports > 0 THEN Exec(Err("AccountAlreadyInitialized", "exists"), L)
        ELSE IF ~create_account_ok(L, depositor, is_signer, L.deposits[a].size > 0, RentDeposit)
            THEN Exec(Err("Custom", "cpi_create_deposit"), L)
        ELSE IF vh # "vault" THEN Exec(Err("InvalidAccountData", "vault_pda"), L1)
        ELSE IF ~create_account_ok(L1, depositor, is_signer, L1.vaults[a].exists, RentVault)
            THEN Exec(Err("Custom", "cpi_create_vault"), L1)
        ELSE IF src # depositor \/ L2.wallet[src] < amount THEN Exec(Err("Custom", "cpi_transfer"), L2)
        ELSE Exec(Ok, L4)

process_deposit_dlm(L, t, depositor, is_signer, a, seed, src, vh, receiver, amount, timeout_seconds) ==
    LET L1 == [L EXCEPT !.lamports[depositor] = @ - RentDeposit,
                        !.deposits[a] = [NoAccount EXCEPT !.lamports = RentDeposit,
                                                          !.size = DEPOSIT_ACCOUNT_SIZE_dlm]]
        L2 == [L1 EXCEPT !.lamports[depositor] = @ - RentVault,
                         !.vaults[a] = [exists |-> TRUE, amount |-> 0]]
        L3 == [L2 EXCEPT !.wallet[src] = @ - amount, !.vaults[a].amount = @ + amount]
        L4 == [L3 EXCEPT !.deposits[a] =
                  serialize_dlm(@, new_body(depositor, receiver, amount, t, timeout_seconds, a, seed))]
    IN  IF ~seed_fits_pda(seed) THEN Exec(Err("ProgramFailedToComplete", "seed_panic"), L)
        ELSE IF a # find_program_address(depositor, seed) THEN Exec(Err("InvalidAccountData", "pda"), L)
        ELSE IF L.deposits[a].lamports > 0 THEN Exec(Err("AccountAlreadyInitialized", "exists"), L)
        ELSE IF ~create_account_ok(L, depositor, is_signer, L.deposits[a].size > 0, RentDeposit)
            THEN Exec(Err("Custom", "cpi_create_deposit"), L)
        ELSE IF vh # "vault" THEN Exec(Err("InvalidAccountData", "vault_pda"), L1)
        ELSE IF ~create_account_ok(L1, depositor, is_signer, L1.vaults[a].exists, RentVault)
            THEN Exec(Err("Custom", "cpi_create_vault"), L1)
        ELSE IF src # depositor \/ L2.wallet[src] < amount THEN Exec(Err("Custom", "cpi_transfer"), L2)
        ELSE Exec(Ok, L4)

(* process_proof_of_life that rebuilds the record as open, closed or not *)
process_proof_of_life_dlm_reopens(L, t, depositor, is_signer, a, seed, burn_ok) ==
    LET d == try_from_slice_dlm(L.deposits[a])
        L1 == [L EXCEPT !.deposits[a] =
                  serialize_dlm(@, [d.body EXCEPT !.last_proof_timestamp = t, !.is_closed = FALSE])]
    IN  IF ~seed_fits_pda(seed) THEN Exec(Err("ProgramFailedToComplete", "seed_panic"), L)
        ELSE IF a # find_program_address(depositor, seed) THEN Exec(Err("InvalidAccountData", "pda"), L)
        ELSE IF ~d.ok THEN Exec(Err("BorshIoError", "decode"), L)
        ELSE IF d.body.depositor # depositor THEN Exec(Err("MissingRequiredSignature", "depositor"), L)
        ELSE IF ~(is_signer /\ burn_ok) THEN Exec(Err("Custom", "cpi_burn"), L)
        ELSE Exec(Ok, L1)

(* burn_ok: the DLM token account supplied holds the token to burn *)
(* process_proof_of_life that stores the time of expiry, not the clock *)
process_proof_of_life_dlm_stores_expiry(L, t, depositor, is_signer, a, seed, burn_ok) ==
    LET d == try_from_slice_dlm(L.deposits[a])
        L1 == [L EXCEPT !.deposits[a] =
                  serialize_dlm(@, [d.body EXCEPT !.last_proof_timestamp = t + d.body.timeout_seconds])]
    IN  IF ~seed_fits_pda(seed) THEN Exec(Err("ProgramFailedToComplete", "seed_panic"), L)
        ELSE IF a # find_program_address(depositor, seed) THEN Exec(Err("InvalidAccountData", "pda"), L)
        ELSE IF ~d.ok THEN Exec(Err("BorshIoError", "decode"), L)
        ELSE IF d.body.depositor # depositor THEN Exec(Err("MissingRequiredSignature", "depositor"), L)
        ELSE IF d.body.is_closed THEN Exec(Err("InvalidAccountData", "closed"), L)
        ELSE IF ~(is_signer /\ burn_ok) THEN Exec(Err("Custom", "cpi_burn"), L)
        ELSE Exec(Ok, L1)

(* process_proof_of_life that also clears the amount of the record *)
process_proof_of_life_dlm_clears_amount(L, t, depositor, is_signer, a, seed, burn_ok) ==
    LET d == try_from_slice_dlm(L.deposits[a])
        L1 == [L EXCEPT !.deposits[a] =
                  serialize_dlm(@, [d.body EXCEPT !.last_proof_timestamp = t, !.amount = 0])]
    IN  IF ~seed_fits_pda(seed) THEN Exec(Err("ProgramFailedToComplete", "seed_panic"), L)
        ELSE IF a # find_program_address(depositor, seed) THEN Exec(Err("InvalidAccountData", "pda"), L)
        ELSE IF ~d.ok THEN Exec(Err("BorshIoError", "decode"), L)
        ELSE IF d.body.depositor # depositor THEN Exec(Err("MissingRequiredSignature", "depositor"), L)
        ELSE IF d.body.is_closed THEN Exec(Err("InvalidAccountData", "closed"), L)
        ELSE IF ~(is_signer /\ burn_ok) THEN Exec(Err("Custom", "cpi_burn"), L)
        ELSE Exec(Ok, L1)

(* process_proof_of_life that accepts the proof and leaves the timestamp *)
process_proof_of_life_dlm_keeps_timestamp(L, t, depositor, is_signer, a, seed, burn_ok) ==
    LET d == try_from_slice_dlm(L.deposits[a])
        L1 == [L EXCEPT !.deposits[a] = serialize_dlm(@, d.body)]
    IN  IF ~seed_fits_pda(seed) THEN Exec(Err("ProgramFailedToComplete", "seed_panic"), L)
        ELSE IF a # find_program_address(depositor, seed) THEN Exec(Err("InvalidAccountData", "pda"), L)
        ELSE IF ~d.ok THEN Exec(Err("BorshIoError", "decode"), L)
        ELSE IF d.body.depositor # depositor THEN Exec(Err("MissingRequiredSignature", "depositor"), L)
        ELSE IF d.body.is_closed THEN Exec(Err("InvalidAccountData", "closed"), L)
        ELSE IF ~(is_signer /\ burn_ok) THEN Exec(Err("Custom", "cpi_burn"), L)
        ELSE Exec(Ok, L1)

(* process_proof_of_life that renews every open record of the depositor *)
process_proof_of_life_dlm_renews_all(L, t, depositor, is_signer, a, seed, burn_ok) ==
    LET d == try_from_slice_dlm(L.deposits[a])
        L1 == [L EXCEPT !.deposits =
                  [k \in Keys |->
                      IF L.deposits[k].lamports > 0 /\ L.deposits[k].body.depositor = depositor
                          /\ ~L.deposits[k].body.is_closed
                      THEN serialize_dlm(L.deposits[k],
                                         [L.deposits[k].body EXCEPT !.last_proof_timestamp = t])
                      ELSE L.deposits[k]]]
    IN  IF ~seed_fits_pda(seed) THEN Exec(Err("ProgramFailedToComplete", "seed_panic"), L)
        ELSE IF a # find_program_address(depositor, seed) THEN Exec(Err("InvalidAccountData", "pda"), L)
        ELSE IF ~d.ok THEN Exec(Err("BorshIoError", "decode"), L)
        ELSE IF d.body.depositor # depositor THEN Exec(Err("MissingRequiredSignature", "depositor"), L)
        ELSE IF d.body.is_closed THEN Exec(Err("InvalidAccountData", "closed"), L)
        ELSE IF ~(is_signer /\ burn_ok) THEN Exec(Err("Custom", "cpi_burn"), L)
        ELSE Exec(Ok, L1)

process_proof_of_life_dlm(L, t, depositor, is_signer, a, seed, burn_ok) ==
    LET d == try_from_slice_dlm(L.deposits[a])
        L1 == [L EXCEPT !.deposits[a] =
                  serialize_dlm(@, [d.body EXCEPT !.last_proof_timestamp = t])]
    IN  IF ~seed_fits_pda(seed) THEN Exec(Err("ProgramFailedToComplete", "seed_panic"), L)
        ELSE IF a # find_program_address(depositor, seed) THEN Exec(Err("InvalidAccountData", "pda"), L)
        ELSE IF ~d.ok THEN Exec(Err("BorshIoError", "decode"), L)
        ELSE IF d.body.depositor # depositor THEN Exec(Err("MissingRequiredSignature", "depositor"), L)
        ELSE IF d.body.is_closed THEN Exec(Err("InvalidAccountData", "closed"), L)
        ELSE IF ~(is_signer /\ burn_ok) THEN Exec(Err("Custom", "cpi_burn"), L)
        ELSE Exec(Ok, L1)

(* process_withdraw without the check of is_closed *)
process_withdraw_dlm_no_closed_check(L, t, depositor, is_signer, a, seed, dest, vh) ==
    LET d == try_from_slice_dlm(L.deposits[a])
        src == vault_account(L, a, vh, depositor)
        L1 == transfer_out(L, a, vh, dest, src.amount)
        L2 == [L1 EXCEPT !.deposits[a] = serialize_dlm(@, [d.body EXCEPT !.is_closed = TRUE])]
    IN  IF ~seed_fits_pda(seed) THEN Exec(Err("ProgramFailedToComplete", "seed_panic"), L)
        ELSE IF a # find_program_address(depositor, seed) THEN Exec(Err("InvalidAccountData", "pda"), L)
        ELSE IF ~d.ok THEN Exec(Err("BorshIoError", "decode"), L)
        ELSE IF d.body.depositor # depositor THEN Exec(Err("MissingRequiredSignature", "depositor"), L)
        ELSE IF ~src.exists THEN Exec(Err("InvalidAccountData", "vault_unpack"), L)
        ELSE IF src.authority # a THEN Exec(Err("Custom", "cpi_transfer"), L)
        ELSE Exec(Ok, L2)

(* process_withdraw that ignores the result of the transfer CPI *)
process_withdraw_dlm_ignores_transfer_error(L, t, depositor, is_signer, a, seed, dest, vh) ==
    LET d == try_from_slice_dlm(L.deposits[a])
        src == vault_account(L, a, vh, depositor)
        L1 == IF src.authority = a THEN transfer_out(L, a, vh, dest, src.amount) ELSE L
        L2 == [L1 EXCEPT !.deposits[a] = serialize_dlm(@, [d.body EXCEPT !.is_closed = TRUE])]
    IN  IF ~seed_fits_pda(seed) THEN Exec(Err("ProgramFailedToComplete", "seed_panic"), L)
        ELSE IF a # find_program_address(depositor, seed) THEN Exec(Err("InvalidAccountData", "pda"), L)
        ELSE IF ~d.ok THEN Exec(Err("BorshIoError", "decode"), L)
        ELSE IF d.body.depositor # depositor THEN Exec(Err("MissingRequiredSignature", "depositor"), L)
        ELSE IF d.body.is_closed THEN Exec(Err("InvalidAccountData", "closed"), L)
        ELSE IF ~src.exists THEN Exec(Err("InvalidAccountData", "vault_unpack"), L)
        ELSE Exec(Ok, L2)

process_withdraw_dlm(L, t, depositor, is_signer, a, seed, dest, vh) ==
    LET d == try_from_slice_dlm(L.deposits[a])
        src == vault_account(L, a, vh, depositor)
        L1 == transfer_out(L, a, vh, dest, src.amount)
        L2 == [L1 EXCEPT !.deposits[a] = serialize_dlm(@, [d.body EXCEPT !.is_closed = TRUE])]
    IN  IF ~seed_fits_pda(seed) THEN Exec(Err("ProgramFailedToComplete", "seed_panic"), L)
        ELSE IF a # find_program_address(depositor, seed) THEN Exec(Err("InvalidAccountData", "pda"), L)
        ELSE IF ~d.ok THEN Exec(Err("BorshIoError", "decode"), L)
        ELSE IF d.body.depositor # depositor THEN Exec(Err("MissingRequiredSignature", "depositor"), L)
        ELSE IF d.body.is_closed THEN Exec(Err("InvalidAccountData", "closed"), L)
        ELSE IF ~src.exists THEN Exec(Err("InvalidAccountData", "vault_unpack"), L)
        ELSE IF src.authority # a THEN Exec(Err("Custom", "cpi_transfer"), L)
        ELSE Exec(Ok, L2)

(* process_claim that also zeroes the amount of the record it closes *)
process_claim_dlm_zeroes_amount(L, t, receiver, is_signer, a, seed, dest, vh) ==
    LET d == try_from_slice_dlm(L.deposits[a])
        src == vault_account(L, a, vh, receiver)
        elapsed == t - d.body.last_proof_timestamp
        L1 == transfer_out(L, a, vh, dest, src.amount)
        d2 == try_from_slice_dlm(L1.deposits[a])
        L2 == [L1 EXCEPT !.deposits[a] =
                  serialize_dlm(@, [d2.body EXCEPT !.is_closed = TRUE, !.amount = 0])]
    IN  IF ~d.ok THEN Exec(Err("BorshIoError", "decode"), L)
        ELSE IF ~seed_fits_pda(seed) THEN Exec(Err("ProgramFailedToComplete", "seed_panic"), L)
        ELSE IF a # find_program_address(d.body.depositor, seed) THEN Exec(Err("InvalidAccountData", "pda"), L)
        ELSE IF d.body.receiver # receiver THEN Exec(Err("MissingRequiredSignature", "receiver"), L)
        ELSE IF d.body.is_closed THEN Exec(Err("InvalidAccountData", "closed"), L)
        ELSE IF elapsed < d.body.timeout_seconds THEN Exec(Err("InvalidAccountData", "not_expired"), L)
        ELSE IF ~src.exists THEN Exec(Err("InvalidAccountData", "vault_unpack"), L)
        ELSE IF src.authority # a THEN Exec(Err("Custom", "cpi_transfer"), L)
        ELSE IF ~d2.ok THEN Exec(Err("BorshIoError", "decode"), L1)
        ELSE Exec(Ok, L2)

process_claim_dlm(L, t, receiver, is_signer, a, seed, dest, vh) ==
    LET d == try_from_slice_dlm(L.deposits[a])
        src == vault_account(L, a, vh, receiver)
        elapsed == t - d.body.last_proof_timestamp
        L1 == transfer_out(L, a, vh, dest, src.amount)
        d2 == try_from_slice_dlm(L1.deposits[a])
        L2 == [L1 EXCEPT !.deposits[a] = serialize_dlm(@, [d2.body EXCEPT !.is_closed = TRUE])]
    IN  IF ~d.ok THEN Exec(Err("BorshIoError", "decode"), L)
        ELSE IF ~seed_fits_pda(seed) THEN Exec(Err("ProgramFailedToComplete", "seed_panic"), L)
        ELSE IF a # find_program_address(d.body.depositor, seed) THEN Exec(Err("InvalidAccountData", "pda"), L)
        ELSE IF d.body.receiver # receiver THEN Exec(Err("MissingRequiredSignature", "receiver"), L)
        ELSE IF d.body.is_closed THEN Exec(Err("InvalidAccountData", "closed"), L)
        ELSE IF elapsed < d.body.timeout_seconds THEN Exec(Err("InvalidAccountData", "not_expired"), L)
        ELSE IF ~src.exists THEN Exec(Err("InvalidAccountData", "vault_unpack"), L)
        ELSE IF src.authority # a THEN Exec(Err("Custom", "cpi_transfer"), L)
        ELSE IF ~d2.ok THEN Exec(Err("BorshIoError", "decode"), L1)
        ELSE Exec(Ok, L2)

(* process_close_account without the check of is_closed *)
process_close_account_dlm_no_closed_check(L, t, authority, is_signer, a, seed, rcpt) ==
    LET d == try_from_slice_dlm(L.deposits[a])
        close_lamports == L.deposits[a].lamports
        L1 == [L EXCEPT !.deposits[a].lamports = 0]
    IN  IF ~d.ok THEN Exec(Err("BorshIoError", "decode"), L)
        ELSE IF ~seed_fits_pda(seed) THEN Exec(Err("ProgramFailedToComplete", "seed_panic"), L)
        ELSE IF a # find_program_address(d.body.depositor, seed) THEN Exec(Err("InvalidAccountData", "pda"), L)
        ELSE IF d.body.depositor # authority /\ d.body.receiver # authority
            THEN Exec(Err("MissingRequiredSignature", "authority"), L)
        ELSE Exec(Ok, credit_refund(L1, a, rcpt, close_lamports))

process_close_account_dlm(L, t, authority, is_signer, a, seed, rcpt) ==
    LET d == try_from_slice_dlm(L.deposits[a])
        close_lamports == L.deposits[a].lamports
        L1 == [L EXCEPT !.deposits[a].lamports = 0]
    IN  IF ~d.ok THEN Exec(Err("BorshIoError", "decode"), L)
        ELSE IF ~seed_fits_pda(seed) THEN Exec(Err("ProgramFailedToComplete", "seed_panic"), L)
        ELSE IF a # find_program_address(d.body.depositor, seed) THEN Exec(Err("InvalidAccountData", "pda"), L)
        ELSE IF d.body.depositor # authority /\ d.body.receiver # authority
            THEN Exec(Err("MissingRequiredSignature", "authority"), L)
        ELSE IF ~d.body.is_closed THEN Exec(Err("InvalidAccountData", "not_closed"), L)
        ELSE Exec(Ok, credit_refund(L1, a, rcpt, close_lamports))

(* ============================================================ the host *)
(* After a successful instruction the runtime removes every account left   *)
(* without lamports; a failed instruction changes nothing.                 *)
purge(ds) == [k \in Keys |-> IF ds[k].lamports = 0 THEN NoAccount ELSE ds[k]]

Commit(e) ==
    IF e.res.code = "Ok"
    THEN /\ deposits' = purge(e.L.deposits)
         /\ vaults' = e.L.vaults
         /\ wallet' = e.L.wallet
         /\ lamports' = e.L.lamports
    ELSE UNCHANGED <<deposits, vaults, wallet, lamports>>

(* ------------------------------------------------------------- requests *)
(* The instructions submitted to the program.  A user acting for itself on *)
(* the record at address a presents its own key, signs, names the record's *)
(* seed, its own token account and the derived vault; the requests are     *)
(* these and every request that differs from one of them in one account,   *)
(* flag or argument.                                                       *)
Request(op, u, is_signer, a, seed, dest, vh, arg) ==
    [op |-> op, u |-> u, is_signer |-> is_signer, a |-> a, seed |-> seed,
     dest |-> dest, vh |-> vh, arg |-> arg]

NoRequest == Request("none", "", FALSE, <<"", "">>, "", "", "", "")

Own(op, c, a, arg) == Request(op, c, TRUE, a, a[2], c, "vault", arg)

Variations(r, dests, vhs) ==
    {r, [r EXCEPT !.is_signer = FALSE]}
        \cup {[r EXCEPT !.seed = s] : s \in Seeds}
        \cup {[r EXCEPT !.dest = d] : d \in dests}
        \cup {[r EXCEPT !.vh = v] : v \in vhs}

DepositArgs == [receiver : Receivers, amount : Amounts, timeout_seconds : Timeouts]
GoodDepositArg == [receiver |-> "bob", amount |-> 5, timeout_seconds |-> MIN_TIMEOUT_SECONDS]

DepositRequests ==
    UNION {Variations(Own("Deposit", c, a, GoodDepositArg), Users, VaultHandles) : c \in Users, a \in Keys}
        \cup {Own("Deposit", c, a, arg) : c \in Users, a \in Keys, arg \in DepositArgs}

ProofOfLifeRequests_sol ==
    UNION {Variations(Own("ProofOfLife", c, a, "T1"), {c}, {"vault"}) : c \in Users, a \in Keys}
        \cup {Own("ProofOfLife", c, a, tok) : c \in Users, a \in Keys, tok \in Tokens}

ProofOfLifeRequests_dlm ==
    UNION {Variations(Own("ProofOfLife", c, a, TRUE), {c}, {"vault"}) : c \in Users, a \in Keys}
        \cup {Own("ProofOfLife", c, a, burn_ok) : c \in Users, a \in Keys, burn_ok \in BOOLEAN}

WithdrawRequests ==
    UNION {Variations(Own("Withdraw", c, a, ""), Users, VaultHandles) : c \in Users, a \in Keys}

ClaimRequests ==
    UNION {Variations(Own("Claim", c, a, ""), Users, VaultHandles) : c \in Users, a \in Keys}

CloseAccountRequests ==
    UNION {Variations(Own("CloseAccount", c, a, ""), {c, "self"}, {"vault"}) : c \in Users, a \in Keys}

(* ------------------------------------------------------------- dispatch *)
(* process_instruction: the handler a request reaches, run on ledger L.    *)
Run_sol(L, t, r) ==
    CASE r.op = "Deposit" ->
            process_deposit_sol(L, t, r.u, r.is_signer, r.a, r.seed, r.dest, r.vh,
                                r.arg.receiver, r.arg.amount, r.arg.timeout_seconds)
      [] r.op = "ProofOfLife" -> process_proof_of_life_sol(L, t, r.u, r.is_signer, r.a, r.seed, r.arg)
      [] r.op = "Withdraw" -> process_withdraw_sol(L, t, r.u, r.is_signer, r.a, r.seed, r.dest, r.vh)
      [] r.op = "Claim" -> process_claim_sol(L, t, r.u, r.is_signer, r.a, r.seed, r.dest, r.vh)
      [] r.op = "CloseAccount" -> process_close_account_sol(L, t, r.u, r.is_signer, r.a, r.seed, r.dest)

Run_dlm(L, t, r) ==
    CASE r.op = "Deposit" ->
            process_deposit_dlm(L, t, r.u, r.is_signer, r.a, r.seed, r.dest, r.vh,
                                r.arg.receiver, r.arg.amount, r.arg.timeout_seconds)
      [] r.op = "ProofOfLife" -> process_proof_of_life_dlm(L, t, r.u, r.is_signer, r.a, r.seed, r.arg)
      [] r.op = "Withdraw" -> process_withdraw_dlm(L, t, r.u, r.is_signer, r.a, r.seed, r.dest, r.vh)
      [] r.op = "Claim" -> process_claim_dlm(L, t, r.u, r.is_signer, r.a, r.seed, r.dest, r.vh)
      [] r.op = "CloseAccount" -> process_close_account_dlm(L, t, r.u, r.is_signer, r.a, r.seed, r.dest)

(* The ledger after the transaction that carried the instruction. *)
After(L, e) == IF e.res.code = "Ok" THEN [e.L EXCEPT !.deposits = purge(@)] ELSE L

(* What is remembered of the last instruction: all of a successful one,    *)
(* of a failed one its kind, its target and its error.                     *)
Observed(r, e) ==
    IF e.res.code = "Ok" THEN [req |-> r, res |-> e.res]
    ELSE [req |-> [NoRequest EXCEPT !.op = r.op, !.a = r.a], res |-> e.res]

Init ==
    /\ variant \in Variants
    /\ now = Start
    /\ deposits = [k \in Keys |-> NoAccount]
    /\ vaults = [k \in Keys |-> NoVault]
    /\ wallet = [u \in Users |-> IF u = "alice" THEN 10 ELSE 0]
    /\ lamports = [u \in Users |-> IF u = "mallory" THEN 0 ELSE 2 * (RentDeposit + RentVault)]
    /\ opened = [k \in Keys |-> 0]
    /\ settled = [k \in Keys |-> 0]
    /\ last = [req |-> NoRequest, res |-> Ok]

Step(r, e) ==
    /\ Commit(e)
    /\ last' = Observed(r, e)
    /\ opened' = IF r.op = "Deposit" /\ e.res.code = "Ok"
                  THEN [opened EXCEPT ![r.a] = IF @ < MaxCount THEN @ + 1 ELSE @]
                  ELSE opened
    /\ settled' = IF r.op \in {"Withdraw", "Claim"} /\ e.res.code = "Ok"
                   THEN [settled EXCEPT ![r.a] = IF @ < MaxCount THEN @ + 1 ELSE @]
                   ELSE settled
    /\ UNCHANGED <<variant, now>>

Tick ==
    /\ now < Start + MaxTicks * TickStep
    /\ now' = now + TickStep
    /\ last' = [req |-> NoRequest, res |-> Ok]
    /\ UNCHANGED <<variant, deposits, vaults, wallet, lamports, opened, settled>>

SolDeposit ==
    /\ variant = "sol"
    /\ \E r \in DepositRequests : Step(r, Run_sol(Ledger, now, r))

SolProofOfLife ==
    /\ variant = "sol"
    /\ \E r \in ProofOfLifeRequests_sol : Step(r, Run_sol(Ledger, now, r))

SolWithdraw ==
    /\ variant = "sol"
    /\ \E r \in WithdrawRequests : Step(r, Run_sol(Ledger, now, r))

SolClaim ==
    /\ variant = "sol"
    /\ \E r \in ClaimRequests : Step(r, Run_sol(Ledger, now, r))

SolCloseAccount ==
    /\ variant = "sol"
    /\ \E r \in CloseAccountRequests : Step(r, Run_sol(Ledger, now, r))

DlmDeposit ==
    /\ variant = "dlm"
    /\ \E r \in DepositRequests : Step(r, Run_dlm(Ledger, now, r))

DlmProofOfLife ==
    /\ variant = "dlm"
    /\ \E r \in ProofOfLifeRequests_dlm : Step(r, Run_dlm(Ledger, now, r))

DlmWithdraw ==
    /\ variant = "dlm"
    /\ \E r \in WithdrawRequests : Step(r, Run_dlm(Ledger, now, r))

DlmClaim ==
    /\ variant = "dlm"
    /\ \E r \in ClaimRequests : Step(r, Run_dlm(Ledger, now, r))

DlmCloseAccount ==
    /\ variant = "dlm"
    /\ \E r \in CloseAccountRequests : Step(r, Run_dlm(Ledger, now, r))

Next ==
    \/ Tick
    \/ SolDeposit
    \/ SolProofOfLife
    \/ SolWithdraw
    \/ SolClaim
    \/ SolCloseAccount
    \/ DlmDeposit
    \/ DlmProofOfLife
    \/ DlmWithdraw
    \/ DlmClaim
    \/ DlmCloseAccount

Spec == Init /\ [][Next]_vars

(* ================================================================ claims *)
Exists(a) == deposits[a].lamports > 0
Record(a) == deposits[a].body
Active(a) == Exists(a) /\ ~Record(a).is_closed
Settled(a) == Exists(a) /\ Record(a).is_closed

(* What the deployed program answers to request r in the current state. *)
Answer(r) == IF variant = "sol" THEN Run_sol(Ledger, now, r) ELSE Run_dlm(Ledger, now, r)

SettleRequests == WithdrawRequests \cup ClaimRequests
AlreadyClosed == Err("InvalidAccountData", "closed")

(* The request of the record's owner, resp. receiver, acting for itself. *)
OwnerWithdraw(a) == Own("Withdraw", Record(a).depositor, a, "")
ReceiverClaim(a) == Own("Claim", Record(a).receiver, a, "")

(* C1: at most one Withdraw or Claim succeeds on a record; once one has    *)
(* succeeded no later Withdraw or Claim on it succeeds, at any time and    *)
(* in any order, and while the record exists the owner's Withdraw and the  *)
(* receiver's Claim are answered with the already-closed error.            *)
C1_SingleSettlement ==
    \A a \in Keys :
        /\ settled[a] <= 1
        /\ settled[a] = 1 =>
              /\ \A r \in SettleRequests : r.a = a => Answer(r).res.code # "Ok"
              /\ Exists(a) => /\ Answer(OwnerWithdraw(a)).res = AlreadyClosed
                              /\ Answer(ReceiverClaim(a)).res = AlreadyClosed

C1_Witness ==
    \E a \in Keys :
        /\ settled[a] = 1
        /\ last.req.op \in {"Withdraw", "Claim"}
        /\ last.req.a = a
        /\ last.res = AlreadyClosed

(* C2: the closed flag of a record never goes from true back to false: a   *)
(* record seen closed is, one step later, closed or gone, and a record     *)
(* that has been settled is closed whenever it exists.                     *)
C2_ClosedMonotonic ==
    /\ [][\A a \in Keys :
            Settled(a) => (deposits'[a].lamports > 0 => deposits'[a].body.is_closed)]_vars
    /\ [](\A a \in Keys : settled[a] > 0 /\ Exists(a) => Record(a).is_closed)

C2_Witness ==
    \E a \in Keys :
        /\ Settled(a)
        /\ last.req.op = "ProofOfLife"
        /\ last.req.a = a
        /\ last.res = AlreadyClosed

(* C3: for every open record, the receiver's Claim is answered with the    *)
(* not-yet-expired error while now - last_liveness_at < timeout_duration   *)
(* and succeeds when now - last_liveness_at = timeout_duration.            *)
C3_ExpiryBoundary ==
    \A a \in Keys :
        Active(a) =>
            LET elapsed == now - Record(a).last_proof_timestamp
                res == Answer(ReceiverClaim(a)).res
            IN  /\ elapsed < Record(a).timeout_seconds => res = Err("InvalidAccountData", "not_expired")
                /\ elapsed = Record(a).timeout_seconds => res = Ok

(* C4: a Withdraw that the account presented as owner has not signed is    *)
(* rejected and changes nothing, in both variants.                         *)
C4_WithdrawNeedsSignature ==
    \A r \in WithdrawRequests :
        ~r.is_signer => Answer(r).res.code # "Ok"

(* C5: a Claim succeeds only if the caller is the record's receiver and    *)
(* has signed.                                                             *)
C5_ClaimOnlyByReceiver ==
    \A r \in ClaimRequests :
        Answer(r).res.code = "Ok" => r.u = Record(r.a).receiver /\ r.is_signer

(* C6: the vault of an open record holds exactly record.amount, the vault  *)
(* of a closed record holds zero.                                          *)
C6_VaultBalance ==
    \A a \in Keys :
        Exists(a) =>
            vaults[a].amount = (IF Record(a).is_closed THEN 0 ELSE Record(a).amount)

(* C7: a Withdraw or Claim that names a vault other than the one derived   *)
(* from the record's address is rejected.                                  *)
C7_VaultAddressChecked ==
    \A r \in SettleRequests :
        r.vh # "vault" => Answer(r).res.code # "Ok"

(* C8: while a record is Active, the Withdraw of its signing owner with    *)
(* the right addresses succeeds, at any time.                              *)
C8_OwnerCanReclaim ==
    \A a \in Keys :
        Active(a) => Answer(OwnerWithdraw(a)).res = Ok

(* Deposit requests that pass every check made before the one for an       *)
(* existing record.                                                        *)
WellFormedDeposit(r) ==
    /\ r.is_signer
    /\ r.a = find_program_address(r.u, r.seed)
    /\ r.dest = r.u
    /\ r.arg.amount > 0
    /\ r.arg.timeout_seconds >= MIN_TIMEOUT_SECONDS
    /\ r.arg.timeout_seconds <= MAX_TIMEOUT_SECONDS

(* C9: while the record of (owner, seed) exists, no Open for that pair     *)
(* succeeds, whatever happened to other records, and a well-formed one is  *)
(* answered with AccountAlreadyInitialized.                                *)
C9_OneRecordPerPair ==
    \A r \in DepositRequests :
        Exists(r.a) =>
            /\ Answer(r).res.code # "Ok"
            /\ WellFormedDeposit(r) => Answer(r).res = Err("AccountAlreadyInitialized", "exists")

C9_Witness ==
    /\ last.req.op = "Deposit"
    /\ last.res = Err("AccountAlreadyInitialized", "exists")
    /\ \A a \in Keys : Exists(a)

(* C10: a RenewLiveness of the owner whose token equals the stored         *)
(* last_proof_token, the all-zero token standing for a record that has     *)
(* none yet, is answered with the replay error.                            *)
StoredToken(a) == IF deposits[a].tag = 1 THEN deposits[a].sig ELSE "zero"

C10_ReplayRejected ==
    \A a \in Keys :
        variant = "sol" /\ Active(a) =>
            Answer(Own("ProofOfLife", Record(a).depositor, a, StoredToken(a))).res
                = Err("InvalidInstructionData", "replay")

(* ------------------------------------------------------------ C11 - C20 *)
ProofOfLifeRequests == IF variant = "sol" THEN ProofOfLifeRequests_sol ELSE ProofOfLifeRequests_dlm
AuthorizationFailure == "MissingRequiredSignature"

(* C12: a RenewLiveness succeeds only for the signing owner of a record    *)
(* that is not closed; the owner's request on a closed record is answered  *)
(* with the already-closed error, and the request of a caller that is not  *)
(* the owner or has not signed with an authorization failure.              *)
C12_RenewPreconditions ==
    \A r \in ProofOfLifeRequests :
        Exists(r.a) =>
            LET res == Answer(r).res
                owner == r.u = Record(r.a).depositor
            IN  /\ res = Ok => owner /\ r.is_signer /\ ~Record(r.a).is_closed
                /\ owner /\ r.is_signer /\ r.seed = r.a[2] /\ Record(r.a).is_closed
                      => res = AlreadyClosed
                /\ ~owner \/ ~r.is_signer => res.code = AuthorizationFailure

(* C13: a Teardown of a record that is not closed is answered with the     *)
(* not-yet-settled error whoever of owner and receiver asks, and a record  *)
(* that was opened and is gone has left an empty vault behind.             *)
NotYetSettled == Err("InvalidAccountData", "not_closed")

C13_TeardownRefusesLive ==
    /\ \A r \in CloseAccountRequests :
          /\ Active(r.a)
          /\ r.is_signer
          /\ r.seed = r.a[2]
          /\ r.u \in {Record(r.a).depositor, Record(r.a).receiver}
          => Answer(r).res = NotYetSettled
    /\ \A a \in Keys : opened[a] > 0 /\ ~Exists(a) => vaults[a].amount = 0

(* C14: a Teardown that succeeds leaves no record at the address and adds  *)
(* the record's whole reservation to the recipient, whichever recipient    *)
(* the caller names, the record's own address included.                    *)
C14_TeardownEffect ==
    \A r \in CloseAccountRequests :
        LET e == Answer(r)
            L == After(Ledger, e)
        IN  e.res = Ok =>
                /\ L.deposits[r.a] = NoAccount
                /\ r.dest # "self" =>
                      L.lamports[r.dest] = lamports[r.dest] + deposits[r.a].lamports
                /\ \A q \in SettleRequests \cup ProofOfLifeRequests \cup CloseAccountRequests :
                      q.a = r.a =>
                          (IF variant = "sol" THEN Run_sol(L, now, q) ELSE Run_dlm(L, now, q)).res.code # "Ok"

Terms(b) ==
    <<b.depositor, b.receiver, b.token_mint, b.amount, b.timeout_seconds,
      b.bump, b.deposit_seed_len, b.deposit_seed>>

(* C16: no step, successful or failed, changes the depositor, receiver,    *)
(* mint, amount, timeout, bump or seed of a record that exists.            *)
C16_ImmutableTerms ==
    [][\A a \in Keys :
            Exists(a) /\ deposits'[a].lamports > 0 =>
                Terms(deposits'[a].body) = Terms(Record(a))]_vars

C16_Witness ==
    \E a \in Keys :
        /\ Settled(a)
        /\ last.req.op = "Claim"
        /\ last.req.a = a
        /\ last.res = Ok
        /\ Record(a).amount > 0
        /\ vaults[a].amount = 0

(* The transfer out of the token account that request r names cannot go    *)
(* through: the account does not exist or the record is not its authority. *)
TransferFails(r) ==
    LET src == vault_account(Ledger, r.a, r.vh, r.u)
    IN  ~src.exists \/ src.authority # r.a

TransferSites == {"cpi_transfer", "vault_unpack"}

(* C19: a Withdraw or Claim on an open record whose transfer cannot go     *)
(* through does not succeed and leaves the record open and the vault as it *)
(* was, and when it failed at the transfer the owner's Withdraw with the   *)
(* right accounts still settles the record.                                *)
C19_AllOrNothing ==
    \A r \in SettleRequests :
        Active(r.a) /\ TransferFails(r) =>
            LET e == Answer(r)
                L == After(Ledger, e)
            IN  /\ e.res.code # "Ok"
                /\ L.deposits[r.a] = deposits[r.a]
                /\ L.vaults[r.a] = vaults[r.a]
                /\ L.wallet = wallet
                /\ e.res.site \in TransferSites => Answer(OwnerWithdraw(r.a)).res = Ok

C19_Witness ==
    /\ last.req.op \in {"Withdraw", "Claim"}
    /\ last.res.site \in TransferSites
    /\ last.req.a \in Keys
    /\ Active(last.req.a)
    /\ vaults[last.req.a].amount = Record(last.req.a).amount

(* Deposit requests with values at and beyond the limits of process_deposit *)
WideSeeds == Seeds \cup {"long"}
WideAmounts == {0, 5}
WideTimeouts == {MIN_TIMEOUT_SECONDS - 1, MIN_TIMEOUT_SECONDS, MAX_TIMEOUT_SECONDS, MAX_TIMEOUT_SECONDS + 1}

OpenRequests ==
    {[Own("Deposit", c, a, [receiver |-> rc, amount |-> am, timeout_seconds |-> ts]) EXCEPT !.seed = sd] :
        c \in Users, a \in Keys, rc \in Receivers, am \in WideAmounts, ts \in WideTimeouts, sd \in WideSeeds}

BadOpenValues(r) ==
    \/ r.arg.amount = 0
    \/ r.arg.timeout_seconds < MIN_TIMEOUT_SECONDS
    \/ r.arg.timeout_seconds > MAX_TIMEOUT_SECONDS
    \/ SeedLen(r.seed) > MAX_DEPOSIT_SEED_LENGTH

(* C17: a Deposit with amount 0, a timeout outside [60, 315360000] or a    *)
(* seed longer than 32 bytes is rejected and leaves nothing behind, and    *)
(* every record that exists has amount > 0, a timeout in that range and a  *)
(* seed of at most 32 bytes.                                               *)
C17_OpenValidation ==
    /\ \A r \in OpenRequests :
          BadOpenValues(r) =>
              /\ Answer(r).res.code # "Ok"
              /\ After(Ledger, Answer(r)) = Ledger
    /\ \A a \in Keys :
          Exists(a) => /\ Record(a).amount > 0
                       /\ Record(a).timeout_seconds >= MIN_TIMEOUT_SECONDS
                       /\ Record(a).timeout_seconds <= MAX_TIMEOUT_SECONDS
                       /\ Record(a).deposit_seed_len <= MAX_DEPOSIT_SEED_LENGTH

(* Failures reported by CPI calls, as opposed to the handler's own checks. *)
CpiSites == {"cpi_create_deposit", "cpi_create_vault", "cpi_transfer", "cpi_burn"}

AllRequests ==
    DepositRequests \cup ProofOfLifeRequests \cup WithdrawRequests
        \cup ClaimRequests \cup CloseAccountRequests

(* C18: a handler that rejects a request at one of its own checks has      *)
(* written nothing before: no account created, no data or balance changed. *)
C18_ValidateBeforeMutate ==
    \A r \in AllRequests :
        LET e == Answer(r)
        IN  e.res.code # "Ok" /\ e.res.site \notin CpiSites => e.L = Ledger

(* The checks of process_claim that reject a Claim for being too early or  *)
(* for a last_proof_timestamp that cannot be: the temporal violations.     *)
TemporalSites == {"not_expired", "future_ts", "old_ts"}

(* C20: a Claim rejected because the record is closed (a state conflict)   *)
(* and a Claim rejected because the timeout has not elapsed (a temporal    *)
(* violation) are answered with different error values.                    *)
C20_DistinctErrorKinds ==
    \A r, q \in ClaimRequests :
        LET x == Answer(r).res
            y == Answer(q).res
        IN  x.site = "closed" /\ y.site \in TemporalSites => x.code # y.code

(* ------------------------------------------------------------ C21 - C30 *)
(* Requests that name a seed from which the record address they present    *)
(* is not derived, alone or together with another wrong account.           *)
MismatchedRequests ==
    {[r EXCEPT !.seed = sd] : r \in AllRequests, sd \in Seeds} \ {r \in AllRequests : r.seed = r.a[2]}

(* C21: a request whose record address does not match the derivation is    *)
(* answered with the address-mismatch error, whatever else is wrong with   *)
(* it and whatever the record holds: the address is compared before        *)
(* anything is read.                                                       *)
C21_AddressCheckFirst ==
    \A r \in MismatchedRequests :
        r.seed # r.a[2] => Answer(r).res = Err("InvalidAccountData", "pda")

(* C22: the derivation sends different (owner, seed) pairs to different    *)
(* addresses, and every record that exists is stored at the address        *)
(* derived from the owner and the seed it holds.                           *)
C22_AddressDerivation ==
    /\ \A o1, o2 \in Users, s1, s2 \in Seeds :
           find_program_address(o1, s1) = find_program_address(o2, s2) => o1 = o2 /\ s1 = s2
    /\ \A a \in Keys :
           Exists(a) => find_program_address(Record(a).depositor, Record(a).deposit_seed) = a

(* both records exist, opened through Deposit *)
C22_Witness == \A a \in Keys : Exists(a) /\ opened[a] > 0 /\ Record(a).depositor = a[1]

(* ---- two instructions on different records, in either order ---- *)
(* The instructions of the parties for themselves on the records, started  *)
(* from ledgers in which the owner's token account covers one Deposit or   *)
(* two.                                                                    *)
Parties == Owners \cup Receivers

Run(L, t, r) == IF variant = "sol" THEN Run_sol(L, t, r) ELSE Run_dlm(L, t, r)

PairRequests ==
    {Own("Deposit", c, a, GoodDepositArg) : c \in Parties, a \in Keys}
        \cup {Own("ProofOfLife", c, a, IF variant = "sol" THEN "T1" ELSE TRUE) : c \in Parties, a \in Keys}
        \cup {Own(op, c, a, "") : op \in {"Withdraw", "Claim", "CloseAccount"}, c \in Parties, a \in Keys}

InitPair ==
    /\ variant \in Variants
    /\ now = Start
    /\ deposits = [k \in Keys |-> NoAccount]
    /\ vaults = [k \in Keys |-> NoVault]
    /\ \E w \in {5, 10} : wallet = [u \in Users |-> IF u = "alice" THEN w ELSE 0]
    /\ lamports = [u \in Users |-> IF u = "mallory" THEN 0 ELSE 2 * (RentDeposit + RentVault)]
    /\ opened = [k \in Keys |-> 0]
    /\ settled = [k \in Keys |-> 0]
    /\ last = [req |-> NoRequest, res |-> Ok]

PairStep == \E r \in PairRequests : Step(r, Run(Ledger, now, r))

NextPair ==
    \/ Tick
    \/ PairStep

SpecPair == InitPair /\ [][NextPair]_vars

(* r1 then r2 from the current ledger: the two results and the ledger left *)
InOrder(r1, r2) ==
    LET e1 == Run(Ledger, now, r1)
        L1 == After(Ledger, e1)
        e2 == Run(L1, now, r2)
    IN  [first |-> e1.res, second |-> e2.res, L |-> After(L1, e2)]

Commute(r1, r2) ==
    LET x == InOrder(r1, r2)
        y == InOrder(r2, r1)
    IN  x.first = y.second /\ x.second = y.first /\ x.L = y.L

(* The Deposits among the two instructions are covered: the token account  *)
(* each draws on and the payer of its rent hold enough for all of them.    *)
Covered(r1, r2) ==
    LET D == {r \in {r1, r2} : r.op = "Deposit"}
    IN  \A r \in D :
            /\ wallet[r.dest] >= r.arg.amount * Cardinality({q \in D : q.dest = r.dest})
            /\ lamports[r.u] >= (RentDeposit + RentVault) * Cardinality({q \in D : q.u = r.u})

ScenarioArg == [receiver |-> "bob", amount |-> 1000, timeout_seconds |-> 86400]

(* The ledger with the owner's token account holding what arg deposits. *)
Funded(L, owner, arg) ==
    IF L.wallet[owner] >= arg.amount THEN L ELSE [L EXCEPT !.wallet[owner] = arg.amount]

(* The four instructions of the scenario on record a, one transaction     *)
(* each, without time passing: their results, and the ledgers in between. *)
ScenarioA(a, arg) ==
    LET L0 == Funded(Ledger, a[1], arg)
        e1 == Run(L0, now, Own("Deposit", a[1], a, arg))
        L1 == After(L0, e1)
        e2 == Run(L1, now, Own("Claim", arg.receiver, a, ""))
        L2 == After(L1, e2)
        e3 == Run(L2, now, Own("Withdraw", a[1], a, ""))
        L3 == After(L2, e3)
        e4 == Run(L3, now, Own("CloseAccount", a[1], a, ""))
        L4 == After(L3, e4)
    IN  [open |-> e1.res, claim |-> e2.res, withdraw |-> e3.res, teardown |-> e4.res,
         vault_after_withdraw |-> L3.vaults[a].amount,
         wallet_gain |-> L3.wallet[a[1]] - L1.wallet[a[1]],
         record_after_teardown |-> L4.deposits[a]]

(* C24: wherever a Deposit of 1000 with timeout 86400 (or of the amounts   *)
(* the other claims use) succeeds, the receiver's immediate Claim is       *)
(* refused because the timeout has not elapsed, the owner's Withdraw then  *)
(* succeeds and empties the vault, and the owner's CloseAccount then       *)
(* succeeds and leaves no record.                                          *)
C24_ScenarioA ==
    \A a \in Keys, arg \in {ScenarioArg, GoodDepositArg} :
        LET x == ScenarioA(a, arg)
        IN  x.open = Ok =>
                /\ x.claim = Err("InvalidAccountData", "not_expired")
                /\ x.withdraw = Ok
                /\ x.vault_after_withdraw = 0
                /\ x.wallet_gain = arg.amount
                /\ x.teardown = Ok
                /\ x.record_after_teardown = NoAccount

(* ---- the expiry window after a renewal ---- *)
(* Times inside the window of length D that starts at t0: its first        *)
(* second, its middle and its last second.                                 *)
WindowTimes(t0, D) == {t0, t0 + D \div 2, t0 + D - 1}

(* Every Claim on record a, run at time t on ledger L, is refused, and the *)
(* receiver's own Claim is refused because the timeout has not elapsed.    *)
ClaimsRefused(L, t, a) ==
    /\ \A r \in ClaimRequests : r.a = a => Run(L, t, r).res # Ok
    /\ Run(L, t, Own("Claim", L.deposits[a].body.receiver, a, "")).res
           = Err("InvalidAccountData", "not_expired")

(* C25: a successful renewal of record a restarts its expiry window: with  *)
(* timeout D, every Claim at a time in [renewal, renewal + D) is refused   *)
(* as not yet expired, however long before the renewal the record was      *)
(* opened or last renewed.                                                 *)
C25_WindowRestarts ==
    /\ \A r \in ProofOfLifeRequests :
           LET e == Answer(r)
               L1 == After(Ledger, e)
           IN  e.res = Ok =>
                   \A t \in WindowTimes(now, Record(r.a).timeout_seconds) : ClaimsRefused(L1, t, r.a)
    /\ \A a \in Keys :
           last.res = Ok /\ last.req.op = "ProofOfLife" /\ last.req.a = a =>
               \A t \in WindowTimes(now, Record(a).timeout_seconds) : ClaimsRefused(Ledger, t, a)

(* a record was renewed a full timeout or more after the program started,  *)
(* and the receiver's Claim at that time is refused as not yet expired     *)
C25_Witness ==
    \E a \in Keys :
        /\ last.res = Ok /\ last.req.op = "ProofOfLife" /\ last.req.a = a
        /\ now >= Start + Record(a).timeout_seconds
        /\ Answer(Own("Claim", Record(a).receiver, a, "")).res = Err("InvalidAccountData", "not_expired")

(* ---- process_instruction: decoding the instruction data ---- *)
(* The instruction data, by what the decoder looks at: its length in       *)
(* bytes, the value of the discriminant, the seed whose length the prefix  *)
(* declares, and whether the seed bytes are UTF-8.  Bytes past the end of  *)
(* the data are not there, whatever the other fields say.                  *)
DISCRIMINANT_LEN == 4
PREFIX_LEN == 4
DEPOSIT_FIELDS_LEN == 32 + 8 + 8
BURN_SIGNATURE_LEN == 64

Wire(len, disc, seed, utf8) == [len |-> len, disc |-> disc, seed |-> seed, utf8 |-> utf8]

OpOf(disc) ==
    CASE disc = 0 -> "Deposit"
      [] disc = 1 -> "ProofOfLife"
      [] disc = 2 -> "Withdraw"
      [] disc = 3 -> "Claim"
      [] disc = 4 -> "CloseAccount"
      [] OTHER -> "none"

(* bytes after the discriminant *)
DataLen(w) == w.len - DISCRIMINANT_LEN

Accepted == [ok |-> TRUE, res |-> Ok]
Rejected(site) == [ok |-> FALSE, res |-> Err("InvalidInstructionData", site)]
(* a slice past the end of the data: the program panics *)
Panicked(site) == [ok |-> FALSE, res |-> Err("ProgramFailedToComplete", site)]

parse_sol(w) ==
    IF w.len < DISCRIMINANT_LEN THEN Rejected("wire_short")
    ELSE IF w.disc \notin 0..4 THEN Rejected("wire_discriminant")
    ELSE IF DataLen(w) < PREFIX_LEN THEN Rejected("wire_prefix")
    ELSE IF SeedLen(w.seed) > MAX_DEPOSIT_SEED_LENGTH \/ PREFIX_LEN + SeedLen(w.seed) > DataLen(w)
        THEN Rejected("wire_seed_len")
    ELSE IF ~w.utf8 THEN Rejected("wire_utf8")
    ELSE IF w.disc = 0 /\ PREFIX_LEN + SeedLen(w.seed) + DEPOSIT_FIELDS_LEN > DataLen(w)
        THEN Rejected("wire_payload")
    ELSE IF w.disc = 1 /\ PREFIX_LEN + SeedLen(w.seed) + BURN_SIGNATURE_LEN > DataLen(w)
        THEN Rejected("wire_payload")
    ELSE Accepted

parse_dlm(w) ==
    IF w.len < DISCRIMINANT_LEN THEN Rejected("wire_short")
    ELSE IF w.disc \notin 0..4 THEN Rejected("wire_discriminant")
    ELSE IF DataLen(w) < PREFIX_LEN THEN Panicked("wire_prefix")
    ELSE IF PREFIX_LEN + SeedLen(w.seed) > DataLen(w) THEN Panicked("wire_seed_len")
    ELSE IF ~w.utf8 THEN Rejected("wire_utf8")
    ELSE IF w.disc = 0 /\ PREFIX_LEN + SeedLen(w.seed) + DEPOSIT_FIELDS_LEN > DataLen(w)
        THEN Panicked("wire_payload")
    ELSE Accepted

WireSites == {"wire_short", "wire_discriminant", "wire_prefix", "wire_seed_len", "wire_utf8", "wire_payload"}

(* The request the decoded instruction makes with the accounts of caller c *)
(* acting for itself on the account at address a.                          *)
Decoded(w, c, a) ==
    Request(OpOf(w.disc), c, TRUE, a, w.seed, c, "vault",
            CASE w.disc = 0 -> GoodDepositArg
              [] w.disc = 1 -> IF variant = "sol" THEN "T1" ELSE TRUE
              [] OTHER -> "")

(* process_instruction on instruction data w *)
Process(L, t, w, c, a) ==
    LET p == IF variant = "sol" THEN parse_sol(w) ELSE parse_dlm(w)
    IN  IF p.ok THEN Run(L, t, Decoded(w, c, a)) ELSE Exec(p.res, L)

(* Lengths around every boundary the decoders test for a seed. *)
WireLengths(sd) ==
    {0, DISCRIMINANT_LEN - 1, DISCRIMINANT_LEN, DISCRIMINANT_LEN + PREFIX_LEN - 1}
        \cup {DISCRIMINANT_LEN + PREFIX_LEN + SeedLen(sd) + k :
                 k \in {-1, 0, DEPOSIT_FIELDS_LEN - 1, DEPOSIT_FIELDS_LEN,
                        BURN_SIGNATURE_LEN - 1, BURN_SIGNATURE_LEN}}

WireRequests ==
    UNION {{Wire(len, disc, sd, utf8) : len \in WireLengths(sd), disc \in 0..5, utf8 \in BOOLEAN} :
              sd \in WideSeeds}

WireStep ==
    \E w \in WireRequests, c \in Parties, a \in Keys :
        Step(Decoded(w, c, a), Process(Ledger, now, w, c, a))

NextWire == WireStep

SpecWire == Init /\ [][NextWire]_vars

(* The malformed instruction data: shorter than the discriminant, an       *)
(* unknown discriminant, a seed length over the maximum or over what is    *)
(* left of the data, or a Deposit without all its fixed-size fields.       *)
Malformed(w) ==
    \/ w.len < DISCRIMINANT_LEN
    \/ w.disc \notin 0..4
    \/ DataLen(w) < PREFIX_LEN
    \/ SeedLen(w.seed) > MAX_DEPOSIT_SEED_LENGTH
    \/ PREFIX_LEN + SeedLen(w.seed) > DataLen(w)
    \/ w.disc = 0 /\ PREFIX_LEN + SeedLen(w.seed) + DEPOSIT_FIELDS_LEN > DataLen(w)

(* C26: malformed instruction data is rejected by the decoder with the     *)
(* malformed-input error, whatever the accounts passed and whatever they   *)
(* hold, and nothing is changed.                                           *)
C26_MalformedRejected ==
    \A w \in WireRequests, c \in Parties, a \in Keys :
        Malformed(w) =>
            LET e == Process(Ledger, now, w, c, a)
            IN  /\ e.res.code = "InvalidInstructionData"
                /\ e.res.site \in WireSites
                /\ e.L = Ledger

(* C27: a ProofOfLife instruction that holds the seed and nothing after    *)
(* it, sent and signed by the depositor of an open record, succeeds and    *)
(* stores the current time as last_proof_timestamp.                        *)
C27_TokenOptional ==
    \A a \in Keys :
        Active(a) =>
            LET w == Wire(DISCRIMINANT_LEN + PREFIX_LEN + SeedLen(a[2]), 1, a[2], TRUE)
                e == Process(Ledger, now, w, Record(a).depositor, a)
            IN  /\ e.res = Ok
                /\ After(Ledger, e).deposits[a].body.last_proof_timestamp = now

(* ---- the lifecycle of the record at an address ---- *)
(* No account and never opened; open; closed; no account after one was     *)
(* opened there.                                                           *)
Lifecycle(a) ==
    CASE Exists(a) /\ ~Record(a).is_closed -> "Active"
      [] Exists(a) /\ Record(a).is_closed -> "Settled"
      [] ~Exists(a) /\ opened[a] = 0 -> "Uninitialized"
      [] OTHER -> "Destroyed"

Succeeded(ops, a) == last.res = Ok /\ last.req.op \in ops /\ last.req.a = a

(* C28: a step leaves the lifecycle state of every record where it is or   *)
(* moves it one state forward: from Uninitialized to Active by a Deposit,  *)
(* from Active to Settled by a Withdraw or a Claim, from Settled to        *)
(* Destroyed by a CloseAccount, each on that record and successful.        *)
C28_LifecycleOrder ==
    [][\A a \in Keys :
          \/ Lifecycle(a)' = Lifecycle(a)
          \/ Lifecycle(a) = "Uninitialized" /\ Lifecycle(a)' = "Active" /\ Succeeded({"Deposit"}, a)'
          \/ Lifecycle(a) = "Active" /\ Lifecycle(a)' = "Settled" /\ Succeeded({"Withdraw", "Claim"}, a)'
          \/ Lifecycle(a) = "Settled" /\ Lifecycle(a)' = "Destroyed" /\ Succeeded({"CloseAccount"}, a)'
      ]_vars

(* a record went through all four states: the CloseAccount that destroyed  *)
(* it has just succeeded, while the other record is still open             *)
C28_Witness ==
    \E a, b \in Keys :
        /\ Lifecycle(a) = "Destroyed" /\ settled[a] > 0 /\ Succeeded({"CloseAccount"}, a)
        /\ Lifecycle(b) = "Active"

(* ---- the record codec ---- *)
(* DepositAccount::try_from_slice on the whole data of a deposit account *)
Decode(acct) == IF variant = "sol" THEN try_from_slice_sol(acct) ELSE try_from_slice_dlm(acct)

(* The account Deposit creates, zeroed, with the record encoded into it. *)
Encoded(body, last_burn_signature) ==
    LET fresh == [NoAccount EXCEPT !.lamports = RentDeposit,
                                   !.size = IF variant = "sol" THEN DEPOSIT_ACCOUNT_SIZE_sol
                                            ELSE DEPOSIT_ACCOUNT_SIZE_dlm]
    IN  IF variant = "sol" THEN serialize_sol(fresh, body, last_burn_signature)
        ELSE serialize_dlm(fresh, body)

(* C29: every stored record decodes, to the fields that were stored, no    *)
(* operation on an existing record fails on decoding it, and decoding the  *)
(* full storage after encoding a record, with a proof token or without,    *)
(* gives that record back.                                                 *)
C29_CodecRoundTrip ==
    /\ \A a \in Keys : Exists(a) => Decode(deposits[a]).ok /\ Decode(deposits[a]).body = Record(a)
    /\ \A r \in AllRequests : Exists(r.a) => Answer(r).res.code # "BorshIoError"
    /\ \A a \in Keys, sig \in {None, Some("T1")} :
           LET body == new_body(a[1], "bob", 5, now, MIN_TIMEOUT_SECONDS, a, a[2])
               d == Decode(Encoded(body, sig))
           IN  d.ok /\ d.body = body /\ (variant = "sol" => d.last_burn_signature = sig)

(* ---- the stored record when the vault transfer is issued ---- *)
(* The deposit account as process_withdraw and process_claim have left it  *)
(* at their invoke_signed of the token transfer: sol-program has written   *)
(* is_closed = true by then, dielemma-program writes it after the transfer *)
(* has returned.                                                           *)
RecordAtTransfer(L, a) ==
    IF variant = "sol"
    THEN LET d == try_from_slice_sol(L.deposits[a])
         IN  serialize_sol(L.deposits[a], [d.body EXCEPT !.is_closed = TRUE], d.last_burn_signature)
    ELSE L.deposits[a]

(* the handler got as far as issuing the transfer *)
TransferIssued(r) == Answer(r).res = Ok \/ Answer(r).res.site = "cpi_transfer"

(* C30: whenever a Withdraw or a Claim issues its vault transfer, the      *)
(* stored record already shows is_closed = true, and a transfer that is    *)
(* refused leaves the handler with the record written as closed.           *)
C30_CloseBeforeTransfer ==
    \A r \in SettleRequests :
        TransferIssued(r) =>
            /\ RecordAtTransfer(Ledger, r.a).body.is_closed
            /\ Answer(r).res.site = "cpi_transfer" => Answer(r).L.deposits[r.a].body.is_closed

(* ------------------------------------------------------------ C31 - C40 *)
(* The user a settlement is owed to: the depositor of the record for a     *)
(* Withdraw, its receiver for a Claim.                                     *)
Payee(r) == IF r.op = "Withdraw" THEN Record(r.a).depositor ELSE Record(r.a).receiver

(* C31: a Withdraw or Claim that succeeds pays the vault's balance into a  *)
(* token account owned by the record's depositor, resp. receiver, and one  *)
(* that names a token account of anyone else is refused.                   *)
C31_PayoutDestination ==
    \A r \in SettleRequests :
        Exists(r.a) =>
            LET e == Answer(r)
                L == After(Ledger, e)
            IN  /\ e.res = Ok =>
                      /\ r.dest = Payee(r)
                      /\ L.wallet[r.dest] = wallet[r.dest] + vaults[r.a].amount
                /\ r.dest # Payee(r) => e.res # Ok /\ L = Ledger

InitGuard ==
    /\ variant \in Variants
    /\ now = MIN_VALID_TIMESTAMP - TickStep
    /\ deposits = [k \in Keys |-> NoAccount]
    /\ vaults = [k \in Keys |-> NoVault]
    /\ wallet = [u \in Users |-> IF u = "alice" THEN 10 ELSE 0]
    /\ lamports = [u \in Users |-> IF u = "mallory" THEN 0 ELSE 2 * (RentDeposit + RentVault)]
    /\ opened = [k \in Keys |-> 0]
    /\ settled = [k \in Keys |-> 0]
    /\ last = [req |-> NoRequest, res |-> Ok]

NextGuard ==
    \/ Tick
    \/ PairStep

SpecGuard == InitGuard /\ [][NextGuard]_vars

(* C33: a Claim on a record whose last_proof_timestamp is later than the   *)
(* clock, or earlier than MIN_VALID_TIMESTAMP, fails and settles nothing,  *)
(* whether or not the timeout has elapsed since that timestamp.            *)
C33_TimestampGuards ==
    \A r \in ClaimRequests :
        Exists(r.a) =>
            /\ Run(Ledger, Record(r.a).last_proof_timestamp - 1, r).res # Ok
            /\ Record(r.a).last_proof_timestamp > now
                  \/ Record(r.a).last_proof_timestamp < MIN_VALID_TIMESTAMP
                  => Answer(r).res # Ok /\ After(Ledger, Answer(r)) = Ledger

(* ---- #[derive(BorshSerialize, BorshDeserialize)] enum DielemmaInstruction ---- *)
(* Bytes are numbers 0..255.  A String is the sequence of its UTF-8 bytes,  *)
(* a Pubkey 32 bytes, a burn signature 64 bytes, a u64 four 16-bit limbs,   *)
(* least significant first.  Borsh writes the variant index in one byte,   *)
(* then the fields in declaration order: a String as its length in four    *)
(* little-endian bytes and its bytes, a u64 as eight little-endian bytes,  *)
(* a byte array as it is.                                                  *)
Bytes(n, b) == [i \in 1..n |-> b]

u32_to_le(n) == <<n % 256, (n \div 256) % 256, (n \div 65536) % 256, n \div 16777216>>
u32_from_le(bs) == bs[1] + 256 * bs[2] + 65536 * bs[3] + 16777216 * bs[4]

u64_to_le(v) ==
    <<v[1] % 256, v[1] \div 256, v[2] % 256, v[2] \div 256,
      v[3] % 256, v[3] \div 256, v[4] % 256, v[4] \div 256>>
u64_from_le(bs) ==
    <<bs[1] + 256 * bs[2], bs[3] + 256 * bs[4], bs[5] + 256 * bs[6], bs[7] + 256 * bs[8]>>

string_to_vec(str) == u32_to_le(Len(str)) \o str

(* try_to_vec that writes the length of a String in one byte *)
instruction_try_to_vec_short_length(ins) ==
    CASE ins.tag = 0 ->
            <<0, Len(ins.deposit_seed)>> \o ins.deposit_seed \o ins.receiver
                  \o u64_to_le(ins.amount) \o u64_to_le(ins.timeout_seconds)
      [] ins.tag = 1 /\ variant = "sol" ->
            <<1, Len(ins.deposit_seed)>> \o ins.deposit_seed \o ins.burn_signature
      [] OTHER -> <<ins.tag, Len(ins.deposit_seed)>> \o ins.deposit_seed

(* instruction.try_to_vec() *)
instruction_try_to_vec(ins) ==
    CASE ins.tag = 0 ->
            <<0>> \o string_to_vec(ins.deposit_seed) \o ins.receiver
                  \o u64_to_le(ins.amount) \o u64_to_le(ins.timeout_seconds)
      [] ins.tag = 1 /\ variant = "sol" -> <<1>> \o string_to_vec(ins.deposit_seed) \o ins.burn_signature
      [] OTHER -> <<ins.tag>> \o string_to_vec(ins.deposit_seed)

(* The fixed-size fields that follow the seed of each variant. *)
FieldsLen(tag) ==
    CASE tag = 0 -> DEPOSIT_FIELDS_LEN
      [] tag = 1 /\ variant = "sol" -> BURN_SIGNATURE_LEN
      [] OTHER -> 0

(* DielemmaInstruction::try_from_slice(bytes): None for an unknown variant *)
(* index, for missing bytes and for bytes left over.                       *)
instruction_try_from_slice(bs) ==
    IF Len(bs) < 1 + PREFIX_LEN \/ bs[1] \notin 0..4 THEN None
    ELSE LET tag == bs[1]
             n == u32_from_le(SubSeq(bs, 2, 5))
             at == 1 + PREFIX_LEN + n
             seed == SubSeq(bs, 2 + PREFIX_LEN, at)
         IN  IF Len(bs) # at + FieldsLen(tag) THEN None
             ELSE CASE tag = 0 ->
                          Some([tag |-> 0, deposit_seed |-> seed,
                                receiver |-> SubSeq(bs, at + 1, at + 32),
                                amount |-> u64_from_le(SubSeq(bs, at + 33, at + 40)),
                                timeout_seconds |-> u64_from_le(SubSeq(bs, at + 41, at + 48))])
                    [] tag = 1 /\ variant = "sol" ->
                          Some([tag |-> 1, deposit_seed |-> seed,
                                burn_signature |-> SubSeq(bs, at + 1, at + BURN_SIGNATURE_LEN)])
                    [] OTHER -> Some([tag |-> tag, deposit_seed |-> seed])

(* Instruction values: seeds that are empty, short, and longer than the    *)
(* program accepts; keys and signatures of one repeated byte; amounts and  *)
(* timeouts 0, 1000, 86400 and the largest u64.                            *)
SeedStrings == {<<>>, <<115, 49>>, Bytes(MAX_DEPOSIT_SEED_LENGTH + 1, 120)}
Pubkeys == {Bytes(32, 0), Bytes(32, 255)}
BurnSignatures == {Bytes(BURN_SIGNATURE_LEN, 0), Bytes(BURN_SIGNATURE_LEN, 171)}
U64s == {<<0, 0, 0, 0>>, <<1000, 0, 0, 0>>, <<20864, 1, 0, 0>>, <<65535, 65535, 65535, 65535>>}

Instructions ==
    {[tag |-> 0, deposit_seed |-> sd, receiver |-> k, amount |-> x, timeout_seconds |-> y] :
        sd \in SeedStrings, k \in Pubkeys, x \in U64s, y \in U64s}
    \cup (IF variant = "sol"
          THEN {[tag |-> 1, deposit_seed |-> sd, burn_signature |-> g] : sd \in SeedStrings, g \in BurnSignatures}
          ELSE {[tag |-> 1, deposit_seed |-> sd] : sd \in SeedStrings})
    \cup {[tag |-> tg, deposit_seed |-> sd] : tg \in 2..4, sd \in SeedStrings}

(* An instruction is serialized and the bytes are kept. *)
Pack ==
    /\ \E ins \in Instructions :
           last' = [req |-> [NoRequest EXCEPT !.op = "pack", !.arg = ins],
                    res |-> [code |-> "Ok", site |-> instruction_try_to_vec(ins)]]
    /\ UNCHANGED <<variant, now, deposits, vaults, wallet, lamports, opened, settled>>

NextBorsh == Pack

SpecBorsh == Init /\ [][NextBorsh]_vars

(* C34: the bytes an instruction was serialized to deserialize to that     *)
(* instruction, for every instruction of the enum.                         *)
C34_InstructionRoundTrip ==
    /\ last.req.op = "pack" => instruction_try_from_slice(last.res.site) = Some(last.req.arg)
    /\ \A ins \in Instructions : instruction_try_from_slice(instruction_try_to_vec(ins)) = Some(ins)

(* a Deposit with a seed of 33 bytes, the largest amount and a timeout of  *)
(* 86400 was serialized, to 1 + 4 + 33 + 48 bytes                          *)
C34_Witness ==
    /\ last.req.op = "pack" /\ last.req.arg.tag = 0
    /\ Len(last.req.arg.deposit_seed) > MAX_DEPOSIT_SEED_LENGTH
    /\ last.req.arg.amount = <<65535, 65535, 65535, 65535>>
    /\ last.req.arg.timeout_seconds = <<20864, 1, 0, 0>>
    /\ Len(last.res.site) = 1 + PREFIX_LEN + MAX_DEPOSIT_SEED_LENGTH + 1 + DEPOSIT_FIELDS_LEN

(* The depositor's own, signed renewal of record a, with a token that was  *)
(* not used before where the instruction carries one.                      *)
OwnerRenewal(a) ==
    Own("ProofOfLife", Record(a).depositor, a, IF variant = "sol" THEN "T1" ELSE TRUE)

(* the timeout of record a has elapsed on the clock *)
Expired(a) == now - Record(a).last_proof_timestamp >= Record(a).timeout_seconds

(* C35: on an open record whose timeout has already elapsed the owner's    *)
(* renewal still succeeds, and after it the receiver's Claim is refused    *)
(* as not expired throughout the timeout counted from the renewal, and     *)
(* succeeds once that has elapsed.                                         *)
C35_RenewalAfterExpiry ==
    \A a \in Keys :
        Active(a) /\ Expired(a) /\ StoredToken(a) # "T1" =>
            LET e == Answer(OwnerRenewal(a))
                L == After(Ledger, e)
                D == Record(a).timeout_seconds
            IN  /\ e.res = Ok
                /\ \A t \in WindowTimes(now, D) : ClaimsRefused(L, t, a)
                /\ Run(L, now + D, Own("Claim", Record(a).receiver, a, "")).res = Ok

(* C36: once a Deposit has succeeded at an address no later Deposit there  *)
(* succeeds, whether the record is open, closed or gone, so no address     *)
(* is opened twice.                                                        *)
C36_NoReopening ==
    /\ \A a \in Keys : opened[a] <= 1
    /\ \A r \in DepositRequests \cup OpenRequests :
           opened[r.a] > 0 => Answer(r).res # Ok

(* a Deposit at the address of a record that was settled and destroyed has *)
(* just failed at the creation of the vault, which is still there          *)
C36_Witness ==
    \E a \in Keys :
        /\ Lifecycle(a) = "Destroyed" /\ settled[a] > 0 /\ vaults[a].exists
        /\ last.req.op = "Deposit" /\ last.req.a = a
        /\ last.res = Err("Custom", "cpi_create_vault")

(* ---- tokens held by the parties and the vaults ---- *)
(* The owner's token account (funding and receiving account in one), the   *)
(* receiver's token account and the vaults of the records.                 *)
TotalHeld(L) ==
    L.wallet["alice"] + L.wallet["bob"]
        + L.vaults[<<"alice", "s1">>].amount + L.vaults[<<"alice", "s2">>].amount

(* C37: the tokens of owner, receiver and vaults together stay what they   *)
(* were at the start; a Deposit that succeeds moves exactly its amount     *)
(* from the funding account into the vault, and a Withdraw or Claim that   *)
(* succeeds pays exactly the recorded amount to the depositor, resp. the   *)
(* receiver, to nobody else, and leaves the vault empty.                   *)
C37_ValueConservation ==
    /\ TotalHeld(Ledger) = 10
    /\ \A r \in DepositRequests :
           LET e == Answer(r)
               L == After(Ledger, e)
           IN  e.res = Ok =>
                   /\ L.wallet[r.dest] = wallet[r.dest] - r.arg.amount
                   /\ L.vaults[r.a].amount = r.arg.amount
    /\ \A r \in SettleRequests :
           LET e == Answer(r)
               L == After(Ledger, e)
           IN  e.res = Ok =>
                   /\ L.wallet[Payee(r)] = wallet[Payee(r)] + Record(r.a).amount
                   /\ \A u \in Users \ {Payee(r)} : L.wallet[u] = wallet[u]
                   /\ L.vaults[r.a].amount = 0

(* ---- the expiry test on 64-bit values ---- *)
(* A 64-bit word is four 16-bit limbs, least significant first (as in the  *)
(* instruction codec).  An i64 is the word read in two's complement.       *)
LIMB == 65536

(* the word of an integer of the model, negative ones in two's complement *)
word_of(n) ==
    IF n >= 0 THEN <<n % LIMB, n \div LIMB, 0, 0>>
    ELSE LET m == -n - 1
         IN  <<LIMB - 1 - (m % LIMB), LIMB - 1 - (m \div LIMB), LIMB - 1, LIMB - 1>>

(* a < b for u64 *)
u64_lt(a, b) ==
    \E i \in 1..4 : a[i] < b[i] /\ \A j \in (i + 1)..4 : a[j] = b[j]

(* timeout_seconds as i64: the same word, read as signed; its top bit is   *)
(* the sign                                                                *)
as_i64(w) == [neg |-> w[4] >= LIMB \div 2, word |-> w]

(* a < b for i64 *)
i64_lt(a, b) ==
    IF a.neg # b.neg THEN a.neg ELSE u64_lt(a.word, b.word)

(* process_deposit: what the variant's validation of timeout_seconds lets  *)
(* through; dielemma-program has none.                                     *)
timeout_accepted(w) ==
    variant = "sol" =>
        /\ ~u64_lt(w, word_of(MIN_TIMEOUT_SECONDS))
        /\ ~u64_lt(word_of(MAX_TIMEOUT_SECONDS), w)

(* process_claim: elapsed < deposit_state.timeout_seconds as i64 *)
not_expired(elapsed, w) == i64_lt(as_i64(word_of(elapsed)), as_i64(w))

(* Timeouts around the bounds of sol-program and around the sign bit, and  *)
(* times since the last proof from none to eleven years.                   *)
WideU64s ==
    {word_of(n) : n \in {0, MIN_TIMEOUT_SECONDS - 1, MIN_TIMEOUT_SECONDS, 86400,
                         MAX_TIMEOUT_SECONDS, MAX_TIMEOUT_SECONDS + 1}}
        \cup {<<LIMB - 1, LIMB - 1, LIMB - 1, LIMB \div 2 - 1>>, <<0, 0, 0, LIMB \div 2>>,
              <<LIMB - 1, LIMB - 1, LIMB - 1, LIMB - 1>>}
ElapsedTimes ==
    {0, MIN_TIMEOUT_SECONDS - 1, MIN_TIMEOUT_SECONDS, 86400, MAX_TIMEOUT_SECONDS - 1,
     MAX_TIMEOUT_SECONDS, MAX_TIMEOUT_SECONDS + 31536000}

(* A record opened with timeout w is claimed after elapsed seconds without *)
(* a renewal, everything else about the two requests being in order.       *)
ExpiryTest ==
    /\ \E w \in WideU64s, elapsed \in ElapsedTimes :
           last' = [req |-> [NoRequest EXCEPT !.op = "expiry",
                                              !.arg = [timeout_seconds |-> w, elapsed |-> elapsed]],
                    res |-> IF ~timeout_accepted(w) THEN Err("InvalidInstructionData", "timeout")
                            ELSE IF not_expired(elapsed, w) THEN Err("InvalidAccountData", "not_expired")
                            ELSE Ok]
    /\ UNCHANGED <<variant, now, deposits, vaults, wallet, lamports, opened, settled>>

NextCast == ExpiryTest

SpecCast == Init /\ [][NextCast]_vars

(* C38: for a timeout the variant's Deposit accepts, the word read as i64  *)
(* is not negative, and the Claim passes the expiry test only when the     *)
(* time since the last proof is, as numbers, at least the timeout.         *)
C38_ExpiryArithmetic ==
    last.req.op = "expiry" /\ last.res.code # "InvalidInstructionData" =>
        /\ ~as_i64(last.req.arg.timeout_seconds).neg
        /\ last.res = Ok => ~u64_lt(word_of(last.req.arg.elapsed), last.req.arg.timeout_seconds)

(* ---- the receiver keeps claiming while the clock advances ---- *)
(* the receiver, signing, claims record a into its own token account *)
ReceiverClaims(a) ==
    /\ Exists(a)
    /\ Step(ReceiverClaim(a), Run(Ledger, now, ReceiverClaim(a)))

Fairness ==
    /\ WF_vars(Tick)
    /\ \A a \in Keys : WF_vars(ReceiverClaims(a))

SpecLive == InitPair /\ [][NextPair]_vars /\ Fairness

(* a RenewLiveness or a Withdraw on record a has just succeeded *)
RenewedOrWithdrawn(a) ==
    last.res = Ok /\ last.req.a = a /\ last.req.op \in {"ProofOfLife", "Withdraw"}

(* the signing receiver's Claim on record a into its own account has just  *)
(* succeeded                                                               *)
ClaimedByReceiver(a) ==
    /\ last.res = Ok /\ last.req.a = a /\ last.req.op = "Claim"
    /\ last.req.is_signer /\ last.req.u \in Receivers /\ last.req.dest = last.req.u

(* C40: for an open record whose timeout ends within the time the clock    *)
(* covers, if no RenewLiveness and no Withdraw on it succeeds from now on,  *)
(* then the signing receiver's Claim into its own account eventually        *)
(* succeeds; and whenever the timeout of an open record has elapsed the     *)
(* receiver's Claim is enabled.                                             *)
C40_EventualClaimability ==
    \A a \in Keys :
        /\ []((/\ Active(a)
               /\ Record(a).last_proof_timestamp + Record(a).timeout_seconds
                      <= Start + MaxTicks * TickStep
               /\ [](~RenewedOrWithdrawn(a)))
                 => <>ClaimedByReceiver(a))
        /\ [](Active(a) /\ Expired(a) => Answer(ReceiverClaim(a)).res = Ok)
====
